---- MODULE Spec2Model ----
(***************************************************************************)
(* Live-handoff pipeline of telegram_voice_relay.py: the bounded           *)
(* live_queue, the pump_live and monitor_live tasks, the stop_event latch  *)
(* and the shutdown sequence of record_call, on one asyncio event loop.    *)
(* Every action is one run of a task between two suspension points.        *)
(***************************************************************************)
EXTENDS Integers, Sequences, FiniteSets, TLC

\* asyncio.Queue(maxsize=256), scaled down
MaxSize == 4
\* number of audio frames the call delivers in one run
MaxFrames == 6
\* largest number of frames in one StreamFrames update
MaxBatch == 2
\* number of frames delivered in a run of the streaming phase alone
MaxStreamFrames == 11

\* the end marker put on live_queue (Python None); audio chunks are 1..MaxFrames
None == 0
\* return codes of the live command
ExitCodes == {0, 1}
\* returncode of a process that has not exited (Python None)
NoCode == -1
\* returncode of a process ended by live_proc.kill()
KillCode == -9

VARIABLES
    mainpc,             \* position of record_call
    live_active,        \* live_active
    stop_event,         \* stop_event.is_set()
    reasons,            \* stop reasons logged by request_stop / schedule_duration
    live_queue,         \* live_queue contents, head first
    live_queue_warned,  \* live_queue_warned
    notices,            \* drop warnings and recovery notices logged
    pumppc,             \* position of pump_live
    chunk,              \* chunk pump_live holds while suspended in drain()
    pumpExit,           \* why pump_live left its loop
    failedChunk,        \* chunk whose write raised
    monpc,              \* position of monitor_live
    consumer,           \* external live command
    returncode,         \* live_proc.returncode
    stdin_closing,      \* live_proc.stdin.is_closing()
    closers,            \* who made the input stream closing, in order
    written,            \* chunks written to the consumer's stdin
    accepted,           \* chunks put_nowait accepted
    nextFrame,          \* frames delivered so far
    timerpc,            \* position of schedule_duration
    steps,              \* shutdown steps executed by record_call
    signals             \* signals sent to the live command

vars == <<mainpc, live_active, stop_event, reasons, live_queue, live_queue_warned,
          notices, pumppc, chunk, pumpExit, failedChunk, monpc, consumer,
          returncode, stdin_closing, closers, written, accepted, nextFrame,
          timerpc, steps, signals>>

stopVars == <<stop_event, reasons>>
queueVars == <<live_queue, live_queue_warned, notices, accepted, nextFrame>>
pumpVars == <<pumppc, chunk, pumpExit, failedChunk, written>>
procVars == <<consumer, returncode>>
pipeVars == <<stdin_closing, closers>>

Min(a, b) == IF a < b THEN a ELSE b

Reason(kind, code) == [kind |-> kind, code |-> code]

Init ==
    /\ mainpc = "start"
    /\ live_active = FALSE
    /\ stop_event = FALSE
    /\ reasons = <<>>
    /\ live_queue = <<>>
    /\ live_queue_warned = FALSE
    /\ notices = <<>>
    /\ pumppc = "none"
    /\ chunk = None
    /\ pumpExit = "none"
    /\ failedChunk = None
    /\ monpc = "none"
    /\ consumer = "none"
    /\ returncode = NoCode
    /\ stdin_closing = FALSE
    /\ closers = <<>>
    /\ written = <<>>
    /\ accepted = <<>>
    /\ nextFrame = 0
    /\ timerpc = "sleeping"
    /\ steps = <<>>
    /\ signals = <<>>

----------------------------------------------------------------------------
\* StopController

\* request_stop without its is_set() test
request_stop_unguarded(reason) ==
    /\ reasons' = Append(reasons, reason)
    /\ stop_event' = TRUE

\* request_stop(reason)
request_stop(reason) ==
    IF ~stop_event
    THEN /\ reasons' = Append(reasons, reason)
         /\ stop_event' = TRUE
    ELSE UNCHANGED stopVars

\* signal handler installed by add_signal_handler
SignalHandler ==
    /\ mainpc \notin {"start", "done", "exit_error"}
    /\ request_stop(Reason("signal", NoCode))
    /\ UNCHANGED <<mainpc, live_active, queueVars, pumpVars, monpc, procVars,
                   pipeVars, timerpc, steps, signals>>

\* schedule_duration after its sleep
schedule_duration ==
    /\ timerpc = "sleeping"
    /\ mainpc \notin {"done", "exit_error"}
    /\ timerpc' = "done"
    /\ IF ~stop_event
       THEN /\ reasons' = Append(reasons, Reason("duration", NoCode))
            /\ stop_event' = TRUE
       ELSE UNCHANGED stopVars
    /\ UNCHANGED <<mainpc, live_active, queueVars, pumpVars, monpc, procVars,
                   pipeVars, steps, signals>>

\* _on_left: LEFT_CALL update of the chat
OnLeft ==
    /\ mainpc \notin {"start", "record", "raised", "done", "exit_error"}
    /\ request_stop(Reason("left_call", NoCode))
    /\ UNCHANGED <<mainpc, live_active, queueVars, pumpVars, monpc, procVars,
                   pipeVars, timerpc, steps, signals>>

----------------------------------------------------------------------------
\* FrameQueue and the producer callback

\* full() that lets one item too many in
Full_off_by_one(q) == Len(q) > MaxSize

\* asyncio.Queue.full()
Full(q) == Len(q) >= MaxSize

\* _forward_stream that makes room by evicting the oldest item when full
ForwardFrame_drop_oldest(st, f) ==
    IF Len(st.q) < MaxSize
    THEN [st EXCEPT !.q = Append(st.q, f), !.accepted = Append(st.accepted, f)]
    ELSE [st EXCEPT !.q = Append(Tail(st.q), f), !.accepted = Append(st.accepted, f)]

\* _forward_stream that warns on every dropped frame
ForwardFrame_warn_every_drop(st, f) ==
    IF Len(st.q) < MaxSize
    THEN LET q2 == Append(st.q, f) IN
         IF st.warned /\ Len(q2) < MaxSize \div 2
         THEN [q |-> q2, warned |-> FALSE, notices |-> Append(st.notices, "recover"),
               accepted |-> Append(st.accepted, f)]
         ELSE [st EXCEPT !.q = q2, !.accepted = Append(st.accepted, f)]
    ELSE [st EXCEPT !.warned = TRUE, !.notices = Append(st.notices, "warn")]

\* one iteration of the loop of _forward_stream on frame f; st is the
\* record of what the handler has changed so far
ForwardFrame(st, f) ==
    IF ~Full(st.q)
    THEN \* put_nowait succeeded: the else branch of the try
         LET q2 == Append(st.q, f) IN
         IF st.warned /\ Len(q2) < MaxSize \div 2
         THEN [q |-> q2, warned |-> FALSE, notices |-> Append(st.notices, "recover"),
               accepted |-> Append(st.accepted, f)]
         ELSE [st EXCEPT !.q = q2, !.accepted = Append(st.accepted, f)]
    ELSE \* asyncio.QueueFull
         IF ~st.warned
         THEN [st EXCEPT !.warned = TRUE, !.notices = Append(st.notices, "warn")]
         ELSE st

RECURSIVE ForwardFrames(_, _, _)
\* the for loop of _forward_stream over frames first+1 .. first+n
ForwardFrames(st, first, n) ==
    IF n = 0 THEN st
    ELSE ForwardFrames(ForwardFrame(st, first + 1), first + 1, n - 1)

\* _forward_stream on an update carrying n frames, of at most limit frames
\* delivered in the run
ForwardStream(n, limit) ==
    /\ mainpc \notin {"start", "raised", "done", "exit_error"}
    /\ nextFrame + n <= limit
    /\ nextFrame' = nextFrame + n
    /\ IF ~live_active \/ stdin_closing
       THEN UNCHANGED <<live_queue, live_queue_warned, notices, accepted>>
       ELSE LET st == ForwardFrames([q |-> live_queue, warned |-> live_queue_warned,
                                     notices |-> notices, accepted |-> accepted],
                                    nextFrame, n)
            IN /\ live_queue' = st.q
               /\ live_queue_warned' = st.warned
               /\ notices' = st.notices
               /\ accepted' = st.accepted
    /\ UNCHANGED <<mainpc, live_active, stopVars, pumpVars, monpc, procVars,
                   pipeVars, timerpc, steps, signals>>

\* _forward_stream on an update carrying n frames
_forward_stream(n) == ForwardStream(n, MaxFrames)

----------------------------------------------------------------------------
\* Pump

\* a finally block that closes without asking is_closing()
PumpFinally_unguarded ==
    /\ stdin_closing' = TRUE
    /\ closers' = Append(closers, "pump")

\* the finally block of pump_live
PumpFinally ==
    IF ~stdin_closing
    THEN /\ stdin_closing' = TRUE
         /\ closers' = Append(closers, "pump")
    ELSE UNCHANGED pipeVars

\* a loop that notes the reason to stop but goes on to the next get()
PumpBreak_keeps_running(why) ==
    /\ pumppc' = "get"
    /\ pumpExit' = why
    /\ UNCHANGED pipeVars

\* break out of the loop of pump_live, through its finally block
PumpBreak(why) ==
    /\ pumppc' = "done"
    /\ pumpExit' = why
    /\ PumpFinally

\* an except clause that requests the stop but forgets to break
PumpPipeError_no_break(c) ==
    /\ request_stop(Reason("pipe_closed", NoCode))
    /\ pumppc' = "get"
    /\ pumpExit' = "pipe"
    /\ failedChunk' = c
    /\ UNCHANGED pipeVars

\* the except clause of pump_live for the write of chunk c: request_stop, break
PumpPipeError(c) ==
    /\ request_stop(Reason("pipe_closed", NoCode))
    /\ pumppc' = "done"
    /\ pumpExit' = "pipe"
    /\ failedChunk' = c
    /\ PumpFinally

\* a get() that hands out the newest item
QueueGet_newest(q) == [item |-> q[Len(q)], rest |-> SubSeq(q, 1, Len(q) - 1)]

\* asyncio.Queue.get on a non-empty queue: the oldest item and what remains
QueueGet(q) == [item |-> Head(q), rest |-> Tail(q)]

\* pump_live resumes from live_queue.get() and runs to its next suspension
PumpGet ==
    /\ pumppc = "get"
    /\ live_queue # <<>>
    /\ live_queue' = QueueGet(live_queue).rest
    /\ LET c == QueueGet(live_queue).item IN
       IF c = None
       THEN \* end marker: break
            /\ PumpBreak("end")
            /\ UNCHANGED <<chunk, failedChunk, written, stopVars>>
       ELSE IF stdin_closing
       THEN \* input stream found closing: break
            /\ PumpBreak("closing")
            /\ UNCHANGED <<chunk, failedChunk, written, stopVars>>
       ELSE IF consumer \in {"eof", "exited"}
       THEN \* write()/drain() raise BrokenPipeError or ConnectionResetError
            /\ PumpPipeError(c)
            /\ UNCHANGED <<chunk, written>>
       ELSE IF consumer = "stalled"
       THEN \* pipe buffer full: drain() suspends
            /\ pumppc' = "drain"
            /\ chunk' = c
            /\ UNCHANGED <<pumpExit, failedChunk, written, stopVars, pipeVars>>
       ELSE \* written and flushed: back to live_queue.get()
            /\ written' = Append(written, c)
            /\ UNCHANGED <<pumppc, chunk, pumpExit, failedChunk, stopVars, pipeVars>>
    /\ UNCHANGED <<mainpc, live_active, live_queue_warned, notices, accepted,
                   nextFrame, monpc, procVars, timerpc, steps, signals>>

\* drain() returns: the consumer read the buffered chunk
PumpDrainReturn ==
    /\ pumppc = "drain"
    /\ consumer = "reading"
    /\ written' = Append(written, chunk)
    /\ chunk' = None
    /\ pumppc' = "get"
    /\ UNCHANGED <<mainpc, live_active, stopVars, queueVars, pumpExit, failedChunk,
                   monpc, procVars, pipeVars, timerpc, steps, signals>>

\* drain() raises: the consumer closed its end of the pipe
PumpDrainRaise ==
    /\ pumppc = "drain"
    /\ consumer \in {"eof", "exited"}
    /\ PumpPipeError(chunk)
    /\ chunk' = None
    /\ UNCHANGED <<mainpc, live_active, queueVars, written, monpc, procVars,
                   timerpc, steps, signals>>

----------------------------------------------------------------------------
\* Monitor

\* a monitor that pushes its end marker without looking at live_active
MonitorWake_always_put ==
    /\ monpc = "wait"
    /\ consumer = "exited"
    /\ IF live_active /\ ~stop_event
       THEN request_stop(Reason("exited", returncode))
       ELSE UNCHANGED stopVars
    /\ IF ~Full(live_queue)
       THEN /\ live_queue' = Append(live_queue, None)
            /\ monpc' = "done"
       ELSE /\ monpc' = "put"
            /\ UNCHANGED live_queue
    /\ UNCHANGED <<mainpc, live_active, live_queue_warned, notices, accepted,
                   nextFrame, pumpVars, procVars, pipeVars, timerpc, steps, signals>>

\* monitor_live resumes from live_proc.wait()
MonitorWake ==
    /\ monpc = "wait"
    /\ consumer = "exited"
    /\ IF live_active /\ ~stop_event
       THEN request_stop(Reason("exited", returncode))
       ELSE UNCHANGED stopVars
    /\ IF live_active
       THEN IF ~Full(live_queue)
            THEN /\ live_queue' = Append(live_queue, None)
                 /\ monpc' = "done"
            ELSE \* live_queue.put(None) suspends
                 /\ monpc' = "put"
                 /\ UNCHANGED live_queue
       ELSE /\ monpc' = "done"
            /\ UNCHANGED live_queue
    /\ UNCHANGED <<mainpc, live_active, live_queue_warned, notices, accepted,
                   nextFrame, pumpVars, procVars, pipeVars, timerpc, steps, signals>>

\* the suspended live_queue.put(None) of monitor_live completes
MonitorPut ==
    /\ monpc = "put"
    /\ ~Full(live_queue)
    /\ live_queue' = Append(live_queue, None)
    /\ monpc' = "done"
    /\ UNCHANGED <<mainpc, live_active, stopVars, live_queue_warned, notices, accepted,
                   nextFrame, pumpVars, procVars, pipeVars, timerpc, steps, signals>>

----------------------------------------------------------------------------
\* ConsumerProcess (the external live command and its pipe)

\* the live command stops reading its stdin and the pipe buffer fills
ConsumerStall ==
    /\ consumer = "reading"
    /\ consumer' = "stalled"
    /\ UNCHANGED <<mainpc, live_active, stopVars, queueVars, pumpVars, monpc,
                   returncode, pipeVars, timerpc, steps, signals>>

\* the live command reads its stdin again
ConsumerResume ==
    /\ consumer = "stalled"
    /\ consumer' = "reading"
    /\ UNCHANGED <<mainpc, live_active, stopVars, queueVars, pumpVars, monpc,
                   returncode, pipeVars, timerpc, steps, signals>>

\* the live command closes its stdin and keeps running
ConsumerCloseInput ==
    /\ consumer \in {"reading", "stalled"}
    /\ consumer' = "eof"
    /\ UNCHANGED <<mainpc, live_active, stopVars, queueVars, pumpVars, monpc,
                   returncode, pipeVars, timerpc, steps, signals>>

\* the live command exits on its own, or on end of input or SIGTERM, with code c
ConsumerExit(c) ==
    /\ consumer \in {"reading", "stalled", "eof"}
    /\ consumer' = "exited"
    /\ returncode' = c
    /\ UNCHANGED <<mainpc, live_active, stopVars, queueVars, pumpVars, monpc,
                   pipeVars, timerpc, steps, signals>>

\* the pipe transport notices that the read end is gone
TransportClose ==
    /\ consumer \in {"eof", "exited"}
    /\ ~stdin_closing
    /\ stdin_closing' = TRUE
    /\ closers' = Append(closers, "transport")
    /\ UNCHANGED <<mainpc, live_active, stopVars, queueVars, pumpVars, monpc,
                   procVars, timerpc, steps, signals>>

\* live_proc.kill() takes effect: SIGKILL cannot be ignored
ConsumerKilled ==
    /\ consumer \in {"reading", "stalled", "eof"}
    /\ \E i \in 1..Len(signals) : signals[i] = "SIGKILL"
    /\ consumer' = "exited"
    /\ returncode' = KillCode
    /\ UNCHANGED <<mainpc, live_active, stopVars, queueVars, pumpVars, monpc,
                   pipeVars, timerpc, steps, signals>>

----------------------------------------------------------------------------
\* record_call

\* the outer finally of record_call: duration_task.cancel()
CancelTimer == timerpc' = IF timerpc = "sleeping" THEN "cancelled" ELSE timerpc

\* a spawn failure that is swallowed: record_call goes on to join the call
SpawnFails_carries_on ==
    /\ mainpc = "start"
    /\ mainpc' = "record"
    /\ UNCHANGED <<live_active, stopVars, queueVars, pumpVars, monpc, procVars,
                   pipeVars, timerpc, steps, signals>>

\* create_subprocess_exec raises FileNotFoundError
SpawnFails ==
    /\ mainpc = "start"
    /\ mainpc' = "raised"
    /\ CancelTimer
    /\ UNCHANGED <<live_active, stopVars, queueVars, pumpVars, monpc, procVars,
                   pipeVars, steps, signals>>

\* create_subprocess_exec succeeds; queue and tasks are created; call.record is awaited
SpawnOk ==
    /\ mainpc = "start"
    /\ consumer' = "reading"
    /\ live_active' = TRUE
    /\ pumppc' = "get"
    /\ monpc' = "wait"
    /\ mainpc' = "record"
    /\ UNCHANGED <<stopVars, queueVars, chunk, pumpExit, failedChunk, written,
                   returncode, pipeVars, timerpc, steps, signals>>

\* call.record returns (ok) or raises
RecordReturn(ok) ==
    /\ mainpc = "record"
    /\ IF ok
       THEN /\ mainpc' = "wait"
            /\ UNCHANGED timerpc
       ELSE /\ mainpc' = "raised"
            /\ CancelTimer
    /\ UNCHANGED <<live_active, stopVars, queueVars, pumpVars, monpc, procVars,
                   pipeVars, steps, signals>>

\* stop_event.wait() returns; live_active = False; leave_call is awaited
StopWake ==
    /\ mainpc = "wait"
    /\ stop_event
    /\ live_active' = FALSE
    /\ steps' = steps \o <<"inactive", "leave">>
    /\ mainpc' = "leave"
    /\ UNCHANGED <<stopVars, queueVars, pumpVars, monpc, procVars, pipeVars,
                   timerpc, signals>>

\* outcomes of call.leave_call
LeaveOutcomes == {"ok", "NotInCallError", "error"}

\* call.leave_call returns or raises; only NotInCallError is suppressed
LeaveReturn(outcome) ==
    /\ mainpc = "leave"
    /\ IF outcome = "error"
       THEN /\ mainpc' = "raised"
            /\ CancelTimer
       ELSE /\ mainpc' = "put_end"
            /\ UNCHANGED timerpc
    /\ UNCHANGED <<live_active, stopVars, queueVars, pumpVars, monpc, procVars,
                   pipeVars, steps, signals>>

\* await live_queue.put(None), then live_task is awaited
MainPutEnd ==
    /\ mainpc = "put_end"
    /\ ~Full(live_queue)
    /\ live_queue' = Append(live_queue, None)
    /\ steps' = Append(steps, "put_end")
    /\ mainpc' = "await_pump"
    /\ UNCHANGED <<live_active, stopVars, live_queue_warned, notices, accepted,
                   nextFrame, pumpVars, monpc, procVars, pipeVars, timerpc, signals>>

\* a shutdown that calls terminate() without looking at returncode
AwaitPumpReturn_always_terminate ==
    /\ mainpc = "await_pump"
    /\ pumppc = "done"
    /\ monpc' = IF monpc \in {"wait", "put"} THEN "cancelled" ELSE monpc
    /\ IF ~stdin_closing
       THEN /\ stdin_closing' = TRUE
            /\ closers' = Append(closers, "main")
       ELSE UNCHANGED pipeVars
    /\ signals' = Append(signals, "SIGTERM")
    /\ steps' = steps \o <<"pump_done", "monitor_cancel", "close", "terminate">>
    /\ mainpc' = IF returncode = NoCode THEN "wait_term" ELSE "flush"
    /\ UNCHANGED <<live_active, stopVars, queueVars, pumpVars, procVars, timerpc>>

\* await live_task returns; the monitor is cancelled, stdin closed, the
\* process terminated if it has not exited
AwaitPumpReturn ==
    /\ mainpc = "await_pump"
    /\ pumppc = "done"
    /\ monpc' = IF monpc \in {"wait", "put"} THEN "cancelled" ELSE monpc
    /\ IF ~stdin_closing
       THEN /\ stdin_closing' = TRUE
            /\ closers' = Append(closers, "main")
       ELSE UNCHANGED pipeVars
    /\ IF returncode = NoCode
       THEN /\ signals' = Append(signals, "SIGTERM")
            /\ steps' = steps \o <<"pump_done", "monitor_cancel", "close", "terminate">>
            /\ mainpc' = "wait_term"
       ELSE /\ steps' = steps \o <<"pump_done", "monitor_cancel", "close">>
            /\ mainpc' = "flush"
            /\ UNCHANGED signals
    /\ UNCHANGED <<live_active, stopVars, queueVars, pumpVars, procVars, timerpc>>

\* wait_for(live_proc.wait(), timeout=5) returns: the process exited in time
WaitTermReturn ==
    /\ mainpc = "wait_term"
    /\ consumer = "exited"
    /\ mainpc' = "flush"
    /\ UNCHANGED <<live_active, stopVars, queueVars, pumpVars, monpc, procVars,
                   pipeVars, timerpc, steps, signals>>

\* a timeout handler that waits again instead of calling kill()
WaitTermTimeout_no_kill ==
    /\ mainpc = "wait_term"
    /\ consumer # "exited"
    /\ mainpc' = "wait_kill"
    /\ UNCHANGED <<live_active, stopVars, queueVars, pumpVars, monpc, procVars,
                   pipeVars, timerpc, steps, signals>>

\* wait_for raises TimeoutError; live_proc.kill(); live_proc.wait() is awaited
WaitTermTimeout ==
    /\ mainpc = "wait_term"
    /\ consumer # "exited"
    /\ signals' = Append(signals, "SIGKILL")
    /\ steps' = Append(steps, "kill")
    /\ mainpc' = "wait_kill"
    /\ UNCHANGED <<live_active, stopVars, queueVars, pumpVars, monpc, procVars,
                   pipeVars, timerpc>>

\* live_proc.wait() after kill() returns
WaitKillReturn ==
    /\ mainpc = "wait_kill"
    /\ consumer = "exited"
    /\ mainpc' = "flush"
    /\ UNCHANGED <<live_active, stopVars, queueVars, pumpVars, monpc, procVars,
                   pipeVars, timerpc, steps, signals>>

\* asyncio.sleep(0.5), the outer finally, record_call returns
Flush ==
    /\ mainpc = "flush"
    /\ steps' = Append(steps, "flush")
    /\ CancelTimer
    /\ mainpc' = "done"
    /\ UNCHANGED <<live_active, stopVars, queueVars, pumpVars, monpc, procVars,
                   pipeVars, signals>>

\* record_call raised: asyncio.run cancels the tasks still pending, then
\* main logs the error and exits with status 1
LoopTeardown ==
    /\ mainpc = "raised"
    /\ mainpc' = "exit_error"
    /\ monpc' = IF monpc \in {"wait", "put"} THEN "cancelled" ELSE monpc
    /\ IF pumppc \in {"get", "drain"}
       THEN /\ pumppc' = "done"
            /\ pumpExit' = "cancelled"
            /\ chunk' = None
            /\ PumpFinally
       ELSE UNCHANGED <<pumppc, pumpExit, chunk, pipeVars>>
    /\ UNCHANGED <<live_active, stopVars, queueVars, failedChunk, written, procVars,
                   timerpc, steps, signals>>

----------------------------------------------------------------------------

Next ==
    \/ SignalHandler
    \/ schedule_duration
    \/ OnLeft
    \/ \E n \in 1..MaxBatch : _forward_stream(n)
    \/ PumpGet
    \/ PumpDrainReturn
    \/ PumpDrainRaise
    \/ MonitorWake
    \/ MonitorPut
    \/ ConsumerStall
    \/ ConsumerResume
    \/ ConsumerCloseInput
    \/ \E c \in ExitCodes : ConsumerExit(c)
    \/ TransportClose
    \/ ConsumerKilled
    \/ SpawnFails
    \/ SpawnOk
    \/ \E ok \in BOOLEAN : RecordReturn(ok)
    \/ StopWake
    \/ \E o \in LeaveOutcomes : LeaveReturn(o)
    \/ MainPutEnd
    \/ AwaitPumpReturn
    \/ WaitTermReturn
    \/ WaitTermTimeout
    \/ WaitKillReturn
    \/ Flush
    \/ LoopTeardown

Spec == Init /\ [][Next]_vars

\* the event loop runs every task that is ready; a call into the media layer
\* returns; the 5 s timeout expires; SIGKILL ends the process.  The live
\* command itself, the signals and the frames are under no obligation.
Fairness ==
    /\ WF_vars(PumpGet)
    /\ WF_vars(PumpDrainReturn)
    /\ WF_vars(PumpDrainRaise)
    /\ WF_vars(MonitorWake)
    /\ WF_vars(MonitorPut)
    /\ WF_vars(ConsumerKilled)
    /\ WF_vars(SpawnOk \/ SpawnFails)
    /\ WF_vars(\E ok \in BOOLEAN : RecordReturn(ok))
    /\ WF_vars(StopWake)
    /\ WF_vars(\E o \in LeaveOutcomes : LeaveReturn(o))
    /\ WF_vars(MainPutEnd)
    /\ WF_vars(AwaitPumpReturn)
    /\ WF_vars(WaitTermReturn)
    /\ WF_vars(WaitTermTimeout)
    /\ WF_vars(WaitKillReturn)
    /\ WF_vars(Flush)
    /\ WF_vars(LoopTeardown)

FairSpec == Spec /\ Fairness

\* The streaming phase on its own: the live command is running, the call is
\* joined and record_call is suspended in stop_event.wait()
StreamInit ==
    /\ mainpc = "wait"
    /\ live_active = TRUE
    /\ stop_event = FALSE
    /\ reasons = <<>>
    /\ live_queue = <<>>
    /\ live_queue_warned = FALSE
    /\ notices = <<>>
    /\ pumppc = "get"
    /\ chunk = None
    /\ pumpExit = "none"
    /\ failedChunk = None
    /\ monpc = "wait"
    /\ consumer = "reading"
    /\ returncode = NoCode
    /\ stdin_closing = FALSE
    /\ closers = <<>>
    /\ written = <<>>
    /\ accepted = <<>>
    /\ nextFrame = 0
    /\ timerpc = "sleeping"
    /\ steps = <<>>
    /\ signals = <<>>

StreamNext ==
    \/ \E n \in 1..MaxBatch : ForwardStream(n, MaxStreamFrames)
    \/ PumpGet
    \/ PumpDrainReturn
    \/ PumpDrainRaise
    \/ MonitorWake
    \/ MonitorPut
    \/ ConsumerStall
    \/ ConsumerResume
    \/ ConsumerCloseInput
    \/ \E c \in ExitCodes : ConsumerExit(c)
    \/ TransportClose
    \/ SignalHandler
    \/ StopWake

StreamSpec == StreamInit /\ [][StreamNext]_vars

----------------------------------------------------------------------------
\* Properties

HasNone(q) == \E i \in 1..Len(q) : q[i] = None
Sent(sig) == \E i \in 1..Len(signals) : signals[i] = sig
Logged(n) == \E i \in 1..Len(notices) : notices[i] = n

\* C1: what pump_live has written to stdin is a prefix of what put_nowait
\* accepted, in acceptance order: nothing written twice, nothing reordered,
\* no dropped chunk written
C1_WrittenPrefixOfAccepted ==
    /\ Len(written) <= Len(accepted)
    /\ \A i \in 1..Len(written) : written[i] = accepted[i]

\* C1 witness: a frame was dropped and several accepted chunks were written
C1_Witness ==
    /\ Len(written) >= 3
    /\ Logged("warn")
    /\ nextFrame > Len(accepted)

\* C2: live_queue never holds more than maxsize items, chunks and end
\* markers together
C2_CapacityNeverExceeded == Len(live_queue) <= MaxSize

\* C2 witness: the queue is at capacity and one of its items is an end marker
C2_Witness ==
    /\ Len(live_queue) = MaxSize
    /\ HasNone(live_queue)
    /\ nextFrame > Len(accepted)

\* no get() has happened yet and the queue holds chunks only
NoTakeYet == pumppc = "get" /\ written = <<>> /\ ~HasNone(live_queue)

\* C3: offers to the empty queue with no take in between: exactly the first
\* maxsize are accepted; and any offer is accepted iff there is room, a
\* rejected one leaving the queue as it was, in one step of the callback
C3_FirstOffersAccepted ==
    /\ [](live_active /\ ~stdin_closing /\ NoTakeYet =>
            /\ accepted = [i \in 1..Min(nextFrame, MaxSize) |-> i]
            /\ live_queue = accepted)
    /\ [][\A n \in 1..MaxBatch :
            nextFrame' = nextFrame + n /\ live_active /\ ~stdin_closing =>
              LET k == Min(n, MaxSize - Len(live_queue))
                  new == [i \in 1..k |-> nextFrame + i]
              IN /\ live_queue' = live_queue \o new
                 /\ accepted' = accepted \o new
                 /\ <<mainpc, pumppc, monpc>>' = <<mainpc, pumppc, monpc>>]_vars

\* C3 witness: more than maxsize offers were made with no take; the queue is
\* full of the first maxsize frames
C3_Witness ==
    /\ live_active /\ ~stdin_closing /\ NoTakeYet
    /\ nextFrame > MaxSize
    /\ Len(live_queue) = MaxSize

\* C4: stop_event goes from unset to set at most once and is never reset;
\* exactly one reason is logged, by the trigger that set it; every later
\* trigger logs nothing
C4_OneShotLatch ==
    /\ [](stop_event <=> Len(reasons) = 1)
    /\ [](Len(reasons) <= 1)
    /\ [][stop_event => stop_event' /\ reasons' = reasons]_vars

\* C4 witness: the duration timer expired after a signal had set the latch
C4_Witness ==
    /\ stop_event
    /\ reasons = <<Reason("signal", NoCode)>>
    /\ timerpc = "done"
    /\ pumpExit = "pipe"

Finished == mainpc \in {"done", "exit_error"}

\* C5: once stop_event is set, the shutdown of record_call comes to an end,
\* whatever the queue depth, the pump's position and the live command do
C5_ShutdownCompletes == stop_event ~> Finished

\* C6: neither record_call nor monitor_live is ever suspended in
\* live_queue.put(None)
C6_PutEndNeverSuspends ==
    /\ ~(mainpc = "put_end" /\ Full(live_queue))
    /\ monpc # "put"

\* C7: the live command exits while the session is active and stop_event is
\* unset: the monitor gets its end marker into the queue, the pump stops and
\* the run ends
C7_ConsumerExitEndsPipeline ==
    (consumer = "exited" /\ live_active /\ ~stop_event /\ monpc = "wait")
        ~> (pumppc = "done" /\ monpc \in {"done", "cancelled"} /\ Finished)

\* C8: a write that raises broken pipe / connection reset sets stop_event
\* (logging the "closed unexpectedly" reason if it was unset), ends the pump
\* at once, and the failed chunk is neither written nor put back; nothing is
\* written afterwards
C8_PipeErrorStopsPump ==
    /\ [](pumpExit = "pipe" =>
            /\ pumppc = "done"
            /\ stop_event
            /\ \A i \in 1..Len(live_queue) : live_queue[i] # failedChunk
            /\ \A i \in 1..Len(written) : written[i] < failedChunk)
    /\ [][pumpExit # "pipe" /\ pumpExit' = "pipe" =>
            /\ written' = written
            /\ Len(live_queue') <= Len(live_queue)
            /\ (~stop_event => reasons' = <<Reason("pipe_closed", NoCode)>>)]_vars
    /\ [][pumpExit = "pipe" => written' = written]_vars

\* C8 witness: a write failed with chunks still queued behind it, and the
\* failure is the recorded stop reason
C8_Witness ==
    /\ pumpExit = "pipe"
    /\ reasons = <<Reason("pipe_closed", NoCode)>>
    /\ written # <<>>
    /\ live_queue # <<>>
    /\ mainpc = "leave"

\* C9: a stopped pump means a closed input stream; the stream is closed once
\* (never by both pump_live and record_call) and nothing is written to it
\* after the close
C9_ClosedOnce ==
    /\ [](pumppc = "done" => stdin_closing)
    /\ [](Len(closers) <= 1)
    /\ [](stdin_closing <=> Len(closers) = 1)
    /\ [](mainpc = "done" => Len(closers) = 1)
    /\ [][stdin_closing => written' = written /\ ~(pumppc = "get" /\ pumppc' = "drain")]_vars

\* C9 witness: the run is over, the pump stopped on a write failure after
\* the transport had noticed the closed pipe
C9_Witness ==
    /\ mainpc = "done"
    /\ pumpExit = "pipe"
    /\ closers = <<"transport">>
    /\ written # <<>>

\* C10: a failing shutdown step does not end record_call early: once the
\* shutdown has begun the run ends with all steps done and the live command
\* gone
C10_StepFailureContained ==
    (steps # <<>> /\ Finished) => (mainpc = "done" /\ consumer = "exited")

\* the shutdown steps of record_call in the order of the source
ShutdownOrder ==
    <<"inactive", "leave", "put_end", "pump_done", "monitor_cancel", "close",
      "terminate", "kill", "flush">>

StepIndex(s) == CHOOSE k \in 1..Len(ShutdownOrder) : ShutdownOrder[k] = s
Did(s) == \E i \in 1..Len(steps) : steps[i] = s

\* C11: whatever set stop_event, the shutdown steps happen in the order
\* inactive, leave, end marker, pump awaited, monitor cancelled, stdin
\* closed, terminate (only on a process that has not exited), kill (only
\* after the grace period ran out), flush delay, each at most once
C11_ShutdownOrderFixed ==
    /\ [](\A i, j \in 1..Len(steps) :
            i < j => StepIndex(steps[i]) < StepIndex(steps[j]))
    /\ [](Did("inactive") => ~live_active /\ stop_event)
    /\ [](Did("pump_done") => pumppc = "done")
    /\ [](Did("monitor_cancel") => monpc \in {"done", "cancelled"})
    /\ [](Did("close") => stdin_closing)
    /\ [](Did("terminate") <=> Sent("SIGTERM"))
    /\ [](Did("kill") <=> Sent("SIGKILL"))
    /\ [](Did("kill") => Did("terminate"))
    /\ [](mainpc = "done" =>
            \A s \in {"inactive", "leave", "put_end", "pump_done",
                      "monitor_cancel", "close", "flush"} : Did(s))
    /\ [][~Sent("SIGTERM") /\ Sent("SIGTERM")' => returncode = NoCode]_vars
    /\ [][~Sent("SIGKILL") /\ Sent("SIGKILL")' => mainpc = "wait_term"]_vars

\* C11 witness: a run stopped by the pump's pipe failure went through all
\* nine steps, the kill included
C11_Witness ==
    /\ mainpc = "done"
    /\ steps = ShutdownOrder
    /\ reasons = <<Reason("pipe_closed", NoCode)>>

\* live_proc.wait() has returned inside monitor_live and the monitor runs
MonitorRuns == monpc = "wait" /\ monpc' \in {"done", "put"}

\* C12 as claimed: with stop_event already set when wait() returns, the
\* monitor changes neither the reason nor the queue and does not suspend
C12_MonitorNoOpOnceStopSet ==
    [][MonitorRuns /\ stop_event =>
          /\ reasons' = reasons
          /\ live_queue' = live_queue
          /\ monpc' = "done"]_vars

\* C12 amended: with stop_event already set the monitor never touches the
\* stop reason; it is a complete no-op once live_active is false; while
\* live_active is still true it pushes its end marker, suspending in put()
\* when the queue is full
C12_MonitorNoOpOnceInactive ==
    [][MonitorRuns /\ stop_event =>
          /\ reasons' = reasons /\ stop_event'
          /\ (~live_active => live_queue' = live_queue /\ monpc' = "done")
          /\ (live_active /\ ~Full(live_queue) =>
                live_queue' = Append(live_queue, None) /\ monpc' = "done")
          /\ (live_active /\ Full(live_queue) =>
                live_queue' = live_queue /\ monpc' = "put")]_vars

\* C12 witness: the monitor has run after the session was marked inactive:
\* it is done, no end marker is queued and the pump has taken none
C12_Witness ==
    /\ monpc = "done"
    /\ stop_event /\ ~live_active
    /\ mainpc = "put_end"
    /\ pumppc = "get"
    /\ live_queue # <<>>
    /\ ~HasNone(live_queue)

\* C13: once the live command was spawned, the run does not end before the
\* process has exited (waited on or killed), and no termination request is
\* sent while its stdin is still open
C13_ConsumerReaped ==
    /\ (Finished /\ consumer # "none" => consumer = "exited")
    /\ (signals # <<>> => stdin_closing)

\* C14: terminate() comes first; kill() is sent only after it, only when the
\* 5 s wait ran out with the process still running, never to a process that
\* has exited; and the wait after terminate() always comes to an end with
\* the process exited, also when the process ignores SIGTERM
C14_TerminateThenKill ==
    /\ [](\A i \in 1..Len(signals) :
            signals[i] = "SIGKILL" => i = 2 /\ signals[1] = "SIGTERM")
    /\ [](Len(signals) <= 2)
    /\ [][~Sent("SIGKILL") /\ Sent("SIGKILL")' =>
            consumer # "exited" /\ returncode = NoCode /\ mainpc = "wait_term"]_vars
    /\ [](mainpc \in {"flush", "done"} => consumer = "exited")
    /\ (mainpc = "wait_term" ~> (mainpc = "done" /\ consumer = "exited"))

\* C14 witness: the live command ignored SIGTERM, was killed after the
\* timeout, and the shutdown returned
C14_Witness ==
    /\ mainpc = "done"
    /\ signals = <<"SIGTERM", "SIGKILL">>
    /\ returncode = KillCode

\* C15: drop warnings and recovery notices alternate, starting with a
\* warning; while the warning is armed off (live_queue_warned) further
\* drops log nothing
C15_WarningsAlternate ==
    /\ [](\A i \in 1..Len(notices) :
            notices[i] = IF i % 2 = 1 THEN "warn" ELSE "recover")
    /\ [](live_queue_warned <=> Len(notices) % 2 = 1)
    /\ [][live_queue_warned /\ accepted' = accepted /\ live_queue' = live_queue
            => notices' = notices]_vars

\* C15 witness: two overload episodes: three frames were dropped, the first
\* episode dropped more than one, and the log is warning, recovery, warning
C15_Witness ==
    /\ notices = <<"warn", "recover", "warn">>
    /\ nextFrame - Len(accepted) >= 3

\* C16: after a warning, the first offer accepted while the queue depth is
\* below maxsize // 2 (any depth from 0 to maxsize // 2 - 1) logs the
\* recovery notice and re-arms the warning
C16_RearmedBelowHalf ==
    [][/\ live_queue_warned
       /\ Len(live_queue) < MaxSize \div 2
       /\ accepted' # accepted
       => /\ ~live_queue_warned'
          /\ notices' = Append(notices, "recover")]_vars

\* position of the first end marker in q
FirstNone(q) == CHOOSE i \in 1..Len(q) : q[i] = None /\ \A j \in 1..(i - 1) : q[j] # None

\* pump_live takes an item from live_queue
PumpTakes == pumppc = "get" /\ Len(live_queue') = Len(live_queue) - 1

\* C17: with an end marker queued, every take of the pump brings the marker
\* one place nearer and nothing else moves it, so the pump stops after at
\* most as many takes as there are items up to the marker; taking the marker
\* stops the pump with stdin closed; a stopped pump writes nothing more, so
\* no chunk queued behind the marker is written; and unless the pump is held
\* in a write by a stalled live command it does get there
C17_EndMarkerStopsPump ==
    /\ [][HasNone(live_queue) /\ PumpTakes =>
            IF Head(live_queue) = None
            THEN pumppc' = "done" /\ pumpExit' = "end" /\ stdin_closing'
                 /\ written' = written
            ELSE \/ pumppc' = "done"
                 \/ FirstNone(live_queue') = FirstNone(live_queue) - 1]_vars
    /\ [][HasNone(live_queue) /\ ~PumpTakes =>
            HasNone(live_queue') /\ FirstNone(live_queue') = FirstNone(live_queue)]_vars
    /\ [][pumppc = "done" => pumppc' = "done" /\ written' = written]_vars
    /\ [](pumpExit = "end" =>
            /\ pumppc = "done" /\ stdin_closing
            /\ \A i \in 1..Len(written), j \in 1..Len(live_queue) :
                 live_queue[j] = None \/ written[i] < live_queue[j])
    /\ (HasNone(live_queue) /\ pumppc \in {"get", "drain"}
          ~> (pumppc = "done" \/ (pumppc = "drain" /\ consumer = "stalled")))

\* C17 witness: the pump stopped on an end marker after writing chunks, and
\* a chunk queued behind the marker is left unwritten
C17_Witness ==
    /\ pumpExit = "end"
    /\ written # <<>>
    /\ live_queue # <<>>
    /\ Head(live_queue) # None

\* C18: when create_subprocess_exec fails, record_call raises at once: the
\* spawn is not tried again, no pump or monitor task exists, the call is not
\* joined, no frame is offered, queued or written, and the run ends with
\* the error exit
C18_SpawnFailureAborts ==
    /\ [](consumer = "none" =>
            /\ mainpc \in {"start", "raised", "exit_error"}
            /\ pumppc = "none" /\ monpc = "none"
            /\ ~live_active
            /\ nextFrame = 0 /\ live_queue = <<>> /\ accepted = <<>> /\ written = <<>>
            /\ steps = <<>> /\ signals = <<>>)
    /\ [][mainpc # "start" => mainpc' # "start"]_vars
    /\ [][mainpc = "raised" /\ consumer = "none" => mainpc' \in {"raised", "exit_error"}]_vars
    /\ [][mainpc = "exit_error" => mainpc' = "exit_error"]_vars

\* C18 witness: the spawn failed and the run ended with the error exit
C18_Witness ==
    /\ mainpc = "exit_error"
    /\ consumer = "none"

\* C19: a pump that stopped without taking an end marker, on a failed write
\* or on finding stdin closing, has set stop_event
C19_PumpFailureRequestsStop ==
    pumppc = "done" /\ pumpExit \in {"pipe", "closing"} => stop_event

\* the stop came from outside the pipeline
ExternalStop ==
    reasons # <<>> /\ reasons[1].kind \in {"signal", "duration", "left_call"}

\* C20: after a stop from outside, with the live command alive and its stdin
\* not closed by it, the shutdown does not close stdin before every accepted
\* chunk is written, and nothing is accepted once live_active is false
C20_NoAcceptedFrameLost ==
    /\ [](/\ ExternalStop /\ steps # <<>>
          /\ consumer \in {"reading", "stalled"}
          /\ stdin_closing
          => written = accepted)
    /\ [][steps # <<>> => accepted' = accepted]_vars

====
